---- MODULE Spec2Model ----
(***************************************************************************)
(* Safe Ride backend: the ride lifecycle (fare quote, ride request, ride   *)
(* acceptance, ride history) and the socket channel of src/server.js and   *)
(* src/unnamed/part_000.                                                   *)
(*                                                                         *)
(* src/server.js holds three successive revisions of the server and        *)
(* src/unnamed/part_000 a fourth, earlier one.  The deployed revision is   *)
(* chosen in Init and never changes: 0 is part_000, 1..3 are the revisions *)
(* of server.js in file order.                                             *)
(*                                                                         *)
(* Every handler is an async function: it runs atomically up to each       *)
(* await, so a call is modelled by one step per await-delimited segment,   *)
(* plus one step for the database executing the statement it was sent.     *)
(*                                                                         *)
(* Four specifications share the actions:                                  *)
(*   Spec     concurrent fare, request and accept calls, every call at the *)
(*            origin coordinate and within one tick of the clock;          *)
(*   SpecHist request, accept and history calls over two coordinates, one  *)
(*            call at a time, the clock advancing;                         *)
(*   SpecAuth every HTTP endpoint, with and without a credential, one call *)
(*            at a time;                                                   *)
(*   SpecSock the socket channel next to accept calls.                     *)
(***************************************************************************)
EXTENDS Integers, Sequences, FiniteSets, TLC

\* Bounds of the model.
MaxCalls == 2
MaxUsers == 2
MaxSockets == 2

Calls     == 1..MaxCalls
\* User ids carried by signed tokens ("1", "2", ...); never NULL.
Users     == {ToString(i) : i \in 1..MaxUsers}
Sockets   == 1..MaxSockets
Revisions == 0..3

NULL == "null"

\* The role a user's token carries (jwt.sign({ id, role })): user "2" is a
\* driver, the others are riders.  No handler checks the role before a
\* request or an accept.
Role(u) == IF u = "2" THEN "driver" ELSE "rider"

\* Coordinates are [lng, lat] pairs in degrees.
Origin == <<0, 0>>
East   == <<1, 0>>
Coords == {Origin, East}

\* Outcomes of the external calls a handler awaits.
GeoOutcomes  == {"match", "zero", "error"}   \* features non-empty / empty / axios rejects
DbOutcomes   == {"ok", "fail"}               \* pool.query resolves / rejects
EmitOutcomes == {"ok", "threw"}              \* io.emit returns / throws
\* Authorization headers that auth rejects: none at all, or one whose second
\* word jwt.verify refuses (a missing second word included).
BadHeaders   == {"none", "invalid"}
Endpoints    == {"fare", "request", "accept", "history"}

VARIABLES rev, rides, events, calls, now, conns, rooms, inbox, alive

http == <<rev, rides, events, calls, now>>
sock == <<conns, rooms, inbox, alive>>
vars == <<rev, rides, events, calls, now, conns, rooms, inbox, alive>>

IdleCall ==
  [op |-> "none", user |-> NULL, rideId |-> 0, pc |-> "idle", pre |-> NULL,
   geo |-> NULL, write |-> "none", rowCount |-> 0, row |-> 0,
   emit |-> "none", status |-> 0, auth |-> "valid",
   pickup |-> Origin, dropoff |-> Origin, fare |-> 0,
   body |-> << >>, result |-> << >>]

\* The next free call slot: calls arrive in slot order.
NextCall(c) == calls[c].pc = "idle" /\ \A d \in Calls : d < c => calls[d].pc # "idle"

\* Ride ids a client may send to /api/rides/accept: every id the SERIAL column
\* has assigned (1..Len(rs)) and one it has not; `WHERE id = $3` treats every
\* unassigned id, and a missing one, alike.
RideIds(rs) == 1..(Len(rs) + 1)

-----------------------------------------------------------------------------
(* Distance and fare.  Amounts are in cents, distances in metres.          *)

BaseFare   == 5
PerKm      == 2
Multiplier == 12

\* haversineDistance over Coords, to the metre: 0 between equal points, and
\* 6371 km * pi / 180 = 111.195 km along one degree of the equator.
haversineDistance(a, b) == IF a = b THEN 0 ELSE 111195

\* parseFloat(x.toFixed(2)) of an amount given in thousandths of a cent.
ToFixed2(milliCents) == (milliCents + 500) \div 1000

\* parseFloat((5 + 2 * dist).toFixed(2)), the fare of /api/rides/fare.
QuoteFare(dm) == ToFixed2(BaseFare * 100000 + PerKm * 100 * dm)

\* parseFloat(((5 + 2 * dist) * 12).toFixed(2)), the fare of /api/rides/request.
BookingFare(dm) == ToFixed2((BaseFare * 100000 + PerKm * 100 * dm) * Multiplier)

\* The fare a client of revision 0 sends in the body of /api/rides/request.

-----------------------------------------------------------------------------
(* The store: table rides, the id column being the index in the sequence.  *)

\* The value written to pickup_coords / dropoff_coords: the array itself in
\* revisions 0 and 1, JSON.stringify({ lng: p[0], lat: p[1] }) in revisions 2
\* and 3 (a JSON column gives the object back).
\* JSON.stringify of an object: its members as text, in the order the object
\* literal lists them.
JsonStringify(obj, keys) == [i \in DOMAIN keys |-> <<keys[i], obj[keys[i]]>>]

\* JSON.parse of such a text: the object with those members; the order of the
\* members in the text is lost.
JsonParse(txt) ==
  [k \in {txt[i][1] : i \in DOMAIN txt} |->
     LET i == CHOOSE i \in DOMAIN txt : txt[i][1] = k IN txt[i][2]]

\* pJson / dJson (revision 2: {lng, lat}) and pickupJson / dropoffJson
\* (revision 3: {lat, lng}) of a coordinate pair [lng, lat].
CoordsJson(rv, p) ==
  JsonStringify([lng |-> p[1], lat |-> p[2]],
                IF rv = 2 THEN <<"lng", "lat">> ELSE <<"lat", "lng">>)

CoordsColumn(rv, p) ==
  IF rv \in {0, 1} THEN p ELSE JsonParse(CoordsJson(rv, p))

\* INSERT INTO rides (rider_id, pickup_coords, dropoff_coords, fare, status)
\* VALUES ($1, ..., 'requested'): driver_id is not among the columns and takes
\* the column default, NULL; requested_at and updated_at take theirs, NOW().
InsertRide(rs, u, p, d, f, t) ==
  Append(rs, [riderId |-> u, driverId |-> NULL, status |-> "requested",
              pickup |-> p, dropoff |-> d, fare |-> f,
              requestedAt |-> t, updatedAt |-> t])

\* A later driver's accept that keeps the first status but not the driver.
UpdateRideStatusOnly(rs, id, u, rv, t) ==
  IF id \in DOMAIN rs THEN [rs EXCEPT ![id].status = "accepted"] ELSE rs

\* An accept that toggles the status instead of setting it.
UpdateRideToggle(rs, id, u, rv, t) ==
  IF id \in DOMAIN rs
    THEN [rs EXCEPT ![id].driverId = u,
                    ![id].status = IF @ = "requested" THEN "accepted" ELSE "requested"]
    ELSE rs

\* UPDATE rides SET driver_id = $1, status = 'accepted' [, updated_at = NOW()]
\* WHERE id = $3: the only condition is the id; status and driver_id are not
\* tested.  Revision 1 does not set updated_at.
UpdateRide(rs, id, u, rv, t) ==
  IF id \in DOMAIN rs
    THEN [rs EXCEPT ![id].driverId = u, ![id].status = "accepted",
                    ![id].updatedAt = IF rv = 1 THEN @ ELSE t]
    ELSE rs

\* The column /api/rides/history filters on: driver_id for a token whose role
\* is driver, rider_id for any other.
HistoryColumnSwapped(role) == IF role = "driver" THEN "riderId" ELSE "driverId"

HistoryColumn(role) == IF role = "driver" THEN "driverId" ELSE "riderId"

\* Ids of the rows `WHERE ${col} = $1` selects.
Selected(rs, u, role) == {id \in DOMAIN rs : rs[id][HistoryColumn(role)] = u}

\* Every order in which the rows of S can come back.
Orderings(S) ==
  {q \in [1..Cardinality(S) -> S] : \A i, j \in 1..Cardinality(S) : i # j => q[i] # q[j]}

\* ORDER BY requested_at DESC.
NewestFirst(rs, q) ==
  \A i, j \in DOMAIN q : i < j => rs[q[i]].requestedAt >= rs[q[j]].requestedAt

\* The orders the SELECT may answer in: revisions 2 and 3 have ORDER BY
\* requested_at DESC; revisions 0 and 1 have no ORDER BY, and the database
\* may return the rows in any order.
SelectOrders(rv, rs, S) ==
  IF rv \in {2, 3} THEN {q \in Orderings(S) : NewestFirst(rs, q)} ELSE Orderings(S)

\* One row of the answer: SELECT * in revisions 1..3; SELECT id,
\* dropoff_location AS dropoff, status in revision 0 (dropoff_location, a text
\* label no INSERT of revision 0 writes, is left out).
SelectRow(rv, rs, id) ==
  IF rv = 0 THEN [id |-> id, status |-> rs[id].status]
            ELSE [id |-> id] @@ rs[id]

\* Rows the UPDATE affects (result.rowCount, which the handler never reads).
RowCount(rs, id) == IF id \in DOMAIN rs THEN 1 ELSE 0

\* The user id a request body may name in a field of its own (rider_id,
\* driver_id, userId): always another user than the caller.
BodyIdentity(u) ==
  LET i == CHOOSE k \in 1..MaxUsers : ToString(k) = u
  IN ToString((i % MaxUsers) + 1)

ReqBodyId(call) == BodyIdentity(call.user)

\* req.user.id, the $1 of the INSERT and of the UPDATE: the id in the token
\* auth verified; req.body is not consulted.
ReqUserId(call) == call.user

\* The row `RETURNING *` hands back to the request handler (`RETURNING id` in
\* part_000).
Returning(rv, rs, id) == IF rv = 0 THEN [id |-> id] ELSE [id |-> id] @@ rs[id]

ResponseBodySwapped(rv, row, p, d) ==
  IF rv = 2
    THEN [row EXCEPT !.pickup  = JsonParse(CoordsJson(2, p)),
                     !.dropoff = [lng |-> d[2], lat |-> d[1]]]
    ELSE row

\* The body of a successful request response: rows[0], and in revision 2
\* { ...ride, pickup_coords: JSON.parse(pJson), dropoff_coords: { lng, lat } }.
ResponseBody(rv, row, p, d) ==
  IF rv = 2
    THEN [row EXCEPT !.pickup  = JsonParse(CoordsJson(2, p)),
                     !.dropoff = [lng |-> d[1], lat |-> d[2]]]
    ELSE row

EmitPayloadSwapped(rv, row, p, d) ==
  IF rv = 2
    THEN [row EXCEPT !.pickup  = JsonParse(CoordsJson(2, p)),
                     !.dropoff = [lng |-> d[2], lat |-> d[1]]]
    ELSE row

\* The payload of io.emit('ride_requested', ...): rows[0], and in revision 2
\* { ...ride, pickup_coords: JSON.parse(pJson), dropoff_coords: { lng, lat } }.
EmitPayload(rv, row, p, d) ==
  IF rv = 2
    THEN [row EXCEPT !.pickup  = JsonParse(CoordsJson(2, p)),
                     !.dropoff = [lng |-> d[1], lat |-> d[2]]]
    ELSE row

-----------------------------------------------------------------------------
(* Control flow of the handlers.                                           *)

\* A zero-match answer also reaches the INSERT (a defaulted coordinate).
GeoProceedsOnZero(g) == g # "error"

\* The handler goes on past the geocoding step only with a match: a rejected
\* axios.get throws at the await, an empty features array either returns 422
\* (revision 2) or throws on features[0].center (revisions 1 and 3).
GeoProceeds(g) == g = "match"

\* Status of the response when the geocoding step does not proceed.
GeoFailureStatus(rv, g) ==
  IF g = "zero" /\ rv = 2 THEN 422 ELSE 500

\* The emit is reached whatever the write did.
EmitReachedAlways(w) == TRUE

\* io.emit follows `await pool.query(...)` inside the try block: a rejected
\* query throws at the await and the emit is never reached.
EmitReached(w) == w = "committed"

\* Revision 0 (part_000) has no io.emit in its request handler.
RequestEmits(rv) == rv # 0

\* Status of the response once the statement has been answered: the catch
\* block answers 500 for a rejected query and for a throwing io.emit alike.
FinalStatus(w, e) ==
  IF w = "committed" /\ e # "threw" THEN 200 ELSE 500

\* io.emit(name, payload): every connected socket receives the event.
Broadcast(name, id) == inbox \cup {[to |-> s, name |-> name, ride |-> id] : s \in conns}

-----------------------------------------------------------------------------
(* The socket channel: io.on('connection', socket => ...).                 *)

\* The events a revision registers a listener for.
Listened(rv) ==
  CASE rv = 0 -> {"join", "message"}
    [] rv = 2 -> {"join_ride", "chat_message"}
    [] OTHER  -> {"join_ride", "chat_message", "location_update"}

\* The listeners whose parameter is a destructuring pattern, ({ rideId,
\* message }) => ...: called with no payload they throw a TypeError before
\* their first statement.
Destructures(rv) ==
  CASE rv = 0 -> {"join"}
    [] rv = 1 -> {"chat_message", "location_update"}
    [] OTHER  -> {"chat_message"}

\* The sockets io.to(`ride_${id}`) addresses.
InRoom(id) == {s \in conns : <<s, id>> \in rooms}

\* A client connects.
Connect(s) ==
  /\ alive
  /\ s \notin conns
  /\ conns' = conns \cup {s}
  /\ UNCHANGED <<http, rooms, inbox, alive>>

\* A client disconnects: the socket leaves the server and all its rooms.
Disconnect(s) ==
  /\ alive
  /\ s \in conns
  /\ conns' = conns \ {s}
  /\ rooms' = {r \in rooms : r[1] # s}
  /\ UNCHANGED <<http, inbox, alive>>

\* socket.on('join_ride', rideId => socket.join(`ride_${rideId}`)).
JoinRide(s, id) ==
  /\ alive
  /\ s \in conns
  /\ "join_ride" \in Listened(rev)
  /\ rooms' = rooms \cup {<<s, id>>}
  /\ UNCHANGED <<http, conns, inbox, alive>>

\* A chat message for ride id arrives with a payload: revisions 1..3 send it
\* to the room of the ride, part_000 (event 'message') to every connection.
ChatMessage(s, id) ==
  /\ alive
  /\ s \in conns
  /\ inbox' = IF rev = 0
                THEN Broadcast("message", id)
                ELSE inbox \cup {[to |-> x, name |-> "chat_message", ride |-> id] :
                                   x \in InRoom(id)}
  /\ UNCHANGED <<http, conns, rooms, alive>>

\* socket.on('location_update', ... => io.emit('driver_location', ...)).
LocationUpdate(s) ==
  /\ alive
  /\ s \in conns
  /\ "location_update" \in Listened(rev)
  /\ inbox' = Broadcast("driver_location", 0)
  /\ UNCHANGED <<http, conns, rooms, alive>>

\* An event arrives with no payload at a listener that destructures it: the
\* TypeError leaves the listener, nothing catches it, and the process ends.
MissingPayload(s, ev) ==
  /\ alive
  /\ s \in conns
  /\ ev \in Listened(rev) \cap Destructures(rev)
  /\ alive' = FALSE
  /\ UNCHANGED <<http, conns, rooms, inbox>>

-----------------------------------------------------------------------------
\* The table outlives the process: the server starts on an empty table or on
\* one that holds a ride requested under an earlier process (by user "1": the
\* handlers never compare user ids, so which user is immaterial).  No socket
\* is connected yet.
Init ==
  /\ rev \in Revisions
  /\ rides \in {<< >>,
                InsertRide(<< >>, "1", CoordsColumn(rev, Origin),
                           CoordsColumn(rev, Origin), BookingFare(0), 0)}
  /\ events = << >>
  /\ calls = [c \in Calls |-> IdleCall]
  /\ now = 1
  /\ conns = {}
  /\ rooms = {}
  /\ inbox = {}
  /\ alive = TRUE

StartFarePersists(c, p, d) ==
  /\ NextCall(c)
  /\ calls' = [calls EXCEPT ![c] =
       IF rev = 0
         THEN [IdleCall EXCEPT !.op = "fare", !.pc = "done", !.status = 200,
                               !.pickup = p, !.dropoff = d,
                               !.fare = QuoteFare(haversineDistance(p, d))]
         ELSE [IdleCall EXCEPT !.op = "fare", !.pc = "geocoding", !.pickup = p]]
  /\ rides' = InsertRide(rides, "1", CoordsColumn(rev, p), CoordsColumn(rev, d),
                         QuoteFare(haversineDistance(p, d)), now)
  /\ UNCHANGED <<rev, events, now, sock>>

\* POST /api/rides/fare, up to its await (revisions 1..3) or whole (revision 0,
\* which takes the dropoff coordinates d from the body and awaits nothing).
StartFare(c, p, d) ==
  /\ NextCall(c)
  /\ calls' = [calls EXCEPT ![c] =
       IF rev = 0
         THEN [IdleCall EXCEPT !.op = "fare", !.pc = "done", !.status = 200,
                               !.pickup = p, !.dropoff = d,
                               !.fare = QuoteFare(haversineDistance(p, d))]
         ELSE [IdleCall EXCEPT !.op = "fare", !.pc = "geocoding", !.pickup = p]]
  /\ UNCHANGED <<rev, rides, events, now, sock>>

\* POST /api/rides/request, up to its first await: axios.get in revisions
\* 1..3, the INSERT in revision 0 (which takes the dropoff coordinates d and
\* the fare f from the body).
StartRequest(c, u, p, d, f) ==
  /\ NextCall(c)
  /\ calls' = [calls EXCEPT ![c] =
       IF rev = 0
         THEN [IdleCall EXCEPT !.op = "request", !.user = u, !.pc = "writing",
                               !.pickup = p, !.dropoff = d, !.fare = f]
         ELSE [IdleCall EXCEPT !.op = "request", !.user = u, !.pc = "geocoding",
                               !.pickup = p]]
  /\ UNCHANGED <<rev, rides, events, now, sock>>

\* POST /api/rides/accept, up to its await: the UPDATE is sent. Revision 0 has
\* no such route.
StartAccept(c, u, id) ==
  /\ NextCall(c)
  /\ rev # 0
  /\ calls' = [calls EXCEPT ![c] =
       [IdleCall EXCEPT !.op = "accept", !.user = u, !.rideId = id, !.pc = "writing",
                        !.pre = IF id \in DOMAIN rides THEN rides[id].status
                                                       ELSE "missing"]]
  /\ UNCHANGED <<rev, rides, events, now, sock>>

\* The geocoder answers (with the coordinate d when it has a match) and the
\* handler runs to its next await or to its end.
GeocodeReturns(c, g, d) ==
  /\ calls[c].pc = "geocoding"
  /\ calls' = [calls EXCEPT ![c] =
       IF GeoProceeds(g)
         THEN IF calls[c].op = "fare"
                THEN [@ EXCEPT !.geo = g, !.pc = "done", !.status = 200, !.dropoff = d,
                               !.fare = QuoteFare(haversineDistance(calls[c].pickup, d))]
                ELSE [@ EXCEPT !.geo = g, !.pc = "writing", !.dropoff = d,
                               !.fare = BookingFare(haversineDistance(calls[c].pickup, d))]
         ELSE [@ EXCEPT !.geo = g, !.pc = "done", !.status = GeoFailureStatus(rev, g)]]
  /\ UNCHANGED <<rev, rides, events, now, sock>>

\* The database executes the INSERT of a request call at time t (the value of
\* NOW()), or rejects it.
DbInsert(c, o, t) ==
  /\ calls[c].pc = "writing"
  /\ calls[c].op = "request"
  /\ IF o = "ok"
       THEN /\ rides' = InsertRide(rides, ReqUserId(calls[c]),
                                   CoordsColumn(rev, calls[c].pickup),
                                   CoordsColumn(rev, calls[c].dropoff),
                                   calls[c].fare, t)
            /\ now' = t
            /\ calls' = [calls EXCEPT ![c] =
                 [@ EXCEPT !.write = "committed", !.rowCount = 1,
                           !.row = Len(rides) + 1, !.pc = "answered",
                           !.body = Returning(rev, rides', Len(rides) + 1)]]
       ELSE /\ rides' = rides
            /\ now' = now
            /\ calls' = [calls EXCEPT ![c] = [@ EXCEPT !.write = "failed", !.pc = "answered"]]
  /\ UNCHANGED <<rev, events, sock>>

\* The database executes the UPDATE of an accept call at time t, or rejects it.
DbUpdate(c, o, t) ==
  /\ calls[c].pc = "writing"
  /\ calls[c].op = "accept"
  /\ IF o = "ok"
       THEN /\ rides' = UpdateRide(rides, calls[c].rideId, ReqUserId(calls[c]), rev, t)
            /\ now' = t
            /\ calls' = [calls EXCEPT ![c] =
                 [@ EXCEPT !.write = "committed",
                           !.rowCount = RowCount(rides, calls[c].rideId),
                           !.pc = "answered"]]
       ELSE /\ rides' = rides
            /\ now' = now
            /\ calls' = [calls EXCEPT ![c] = [@ EXCEPT !.write = "failed", !.pc = "answered"]]
  /\ UNCHANGED <<rev, events, sock>>

\* The rest of the request handler after `await pool.query`: io.emit, res.json,
\* or the catch block.
RequestContinue(c, e) ==
  /\ calls[c].pc = "answered"
  /\ calls[c].op = "request"
  /\ IF EmitReached(calls[c].write) /\ RequestEmits(rev)
       THEN /\ events' = IF e = "ok"
                 THEN Append(events, [name |-> "ride_requested", rideId |-> calls[c].row,
                                      driverId |-> NULL, call |-> c,
                                      payload |-> EmitPayload(rev, calls[c].body,
                                                              calls[c].pickup,
                                                              calls[c].dropoff)])
                 ELSE events
            /\ inbox' = IF e = "ok" THEN Broadcast("ride_requested", calls[c].row)
                                    ELSE inbox
            /\ calls' = [calls EXCEPT ![c] =
                 [@ EXCEPT !.emit = e, !.pc = "done",
                           !.status = FinalStatus(calls[c].write, e),
                           !.body = IF e = "ok"
                                      THEN ResponseBody(rev, @, calls[c].pickup,
                                                        calls[c].dropoff)
                                      ELSE @]]
       ELSE /\ e = "ok"
            /\ events' = events
            /\ inbox' = inbox
            /\ calls' = [calls EXCEPT ![c] =
                 [@ EXCEPT !.pc = "done", !.status = FinalStatus(calls[c].write, "none")]]
  /\ UNCHANGED <<rev, rides, now, conns, rooms, alive>>

\* The rest of the accept handler after `await pool.query`.
AcceptContinue(c, e) ==
  /\ calls[c].pc = "answered"
  /\ calls[c].op = "accept"
  /\ IF EmitReached(calls[c].write)
       THEN /\ events' = IF e = "ok"
                 THEN Append(events, [name |-> "ride_accepted", rideId |-> calls[c].rideId,
                                      driverId |-> calls[c].user, call |-> c])
                 ELSE events
            /\ inbox' = IF e = "ok" THEN Broadcast("ride_accepted", calls[c].rideId)
                                    ELSE inbox
            /\ calls' = [calls EXCEPT ![c] =
                 [@ EXCEPT !.emit = e, !.pc = "done",
                           !.status = FinalStatus(calls[c].write, e)]]
       ELSE /\ e = "ok"
            /\ events' = events
            /\ inbox' = inbox
            /\ calls' = [calls EXCEPT ![c] =
                 [@ EXCEPT !.pc = "done", !.status = FinalStatus(calls[c].write, "none")]]
  /\ UNCHANGED <<rev, rides, now, conns, rooms, alive>>

\* GET /api/rides/history, up to its await: the SELECT is sent.
StartHistory(c, u) ==
  /\ NextCall(c)
  /\ calls' = [calls EXCEPT ![c] =
       [IdleCall EXCEPT !.op = "history", !.user = u, !.pc = "reading"]]
  /\ UNCHANGED <<rev, rides, events, now, sock>>

\* The database executes the SELECT of a history call, or rejects it.
DbSelect(c, o) ==
  /\ calls[c].pc = "reading"
  /\ IF o = "ok"
       THEN \E q \in SelectOrders(rev, rides,
                                  Selected(rides, calls[c].user, Role(calls[c].user))) :
              calls' = [calls EXCEPT ![c] =
                [@ EXCEPT !.write = "committed", !.pc = "answered",
                          !.result = [i \in DOMAIN q |-> SelectRow(rev, rides, q[i])]]]
       ELSE calls' = [calls EXCEPT ![c] = [@ EXCEPT !.write = "failed", !.pc = "answered"]]
  /\ UNCHANGED <<rev, rides, events, now, sock>>

\* The rest of the history handler after `await pool.query`: res.json(rows),
\* or the catch block.
HistoryContinue(c) ==
  /\ calls[c].pc = "answered"
  /\ calls[c].op = "history"
  /\ calls' = [calls EXCEPT ![c] =
       [@ EXCEPT !.pc = "done", !.status = FinalStatus(calls[c].write, "none")]]
  /\ UNCHANGED <<rev, rides, events, now, sock>>

\* auth lets a request with a missing Authorization header through.
UnauthorizedRunsHandler(c, op, h) ==
  /\ NextCall(c)
  /\ op # "accept" \/ rev # 0
  /\ calls' = [calls EXCEPT ![c] =
       IF h = "none" /\ op = "request"
         THEN [IdleCall EXCEPT !.op = op, !.auth = h, !.user = "1",
                               !.pc = IF rev = 0 THEN "writing" ELSE "geocoding"]
         ELSE [IdleCall EXCEPT !.op = op, !.auth = h, !.pc = "done", !.status = 401]]
  /\ UNCHANGED <<rev, rides, events, now, sock>>

\* auth: a request to endpoint op whose Authorization header is missing, or
\* whose token jwt.verify refuses, is answered 401 and next() is not called.
Unauthorized(c, op, h) ==
  /\ NextCall(c)
  /\ op # "accept" \/ rev # 0
  /\ calls' = [calls EXCEPT ![c] =
       [IdleCall EXCEPT !.op = op, !.auth = h, !.pc = "done", !.status = 401]]
  /\ UNCHANGED <<rev, rides, events, now, sock>>

\* Concurrent fare, request and accept calls, all at the origin coordinate and
\* within one tick of the clock; the requests are rider "1"'s, with the fare
\* that rider was quoted, and the accepts are any user's.
Next ==
  \/ \E c \in Calls : StartFare(c, Origin, Origin)
  \/ \E c \in Calls : StartRequest(c, "1", Origin, Origin, QuoteFare(0))
  \/ \E c \in Calls, u \in Users, id \in RideIds(rides) : StartAccept(c, u, id)
  \/ \E c \in Calls, g \in GeoOutcomes : GeocodeReturns(c, g, Origin)
  \/ \E c \in Calls, o \in DbOutcomes : DbInsert(c, o, now)
  \/ \E c \in Calls, o \in DbOutcomes : DbUpdate(c, o, now)
  \/ \E c \in Calls, e \in EmitOutcomes : RequestContinue(c, e)
  \/ \E c \in Calls, e \in EmitOutcomes : AcceptContinue(c, e)

Spec == Init /\ [][Next]_vars

\* No call is between its arrival and its answer.
Quiet == \A c \in Calls : calls[c].pc \in {"idle", "done"}

\* The dropoff coordinates a request body can carry: read by revision 0 only.
BodyDropoffs == IF rev = 0 THEN Coords ELSE {Origin}

\* Request, accept and history calls, one at a time, every statement at a later
\* time than the one before; the dropoff resolves to either coordinate.
NextHist ==
  \/ Quiet /\ \E c \in Calls, u \in Users, d \in BodyDropoffs :
                StartRequest(c, u, Origin, d, BookingFare(0))
  \/ Quiet /\ \E c \in Calls, u \in Users, id \in RideIds(rides) : StartAccept(c, u, id)
  \/ Quiet /\ \E c \in Calls, u \in Users : StartHistory(c, u)
  \/ \E c \in Calls, g \in GeoOutcomes, d \in Coords : GeocodeReturns(c, g, d)
  \/ \E c \in Calls, o \in DbOutcomes : DbInsert(c, o, now + 1)
  \/ \E c \in Calls, o \in DbOutcomes : DbUpdate(c, o, now + 1)
  \/ \E c \in Calls, o \in DbOutcomes : DbSelect(c, o)
  \/ \E c \in Calls, e \in EmitOutcomes : RequestContinue(c, e)
  \/ \E c \in Calls, e \in EmitOutcomes : AcceptContinue(c, e)
  \/ \E c \in Calls : HistoryContinue(c)

SpecHist == Init /\ [][NextHist]_vars

\* Every HTTP endpoint, called with and without a credential, one call at a
\* time, at the origin coordinate.
NextAuth ==
  \/ Quiet /\ \E c \in Calls : StartFare(c, Origin, Origin)
  \/ Quiet /\ \E c \in Calls, u \in Users : StartRequest(c, u, Origin, Origin, BookingFare(0))
  \/ Quiet /\ \E c \in Calls, u \in Users, id \in RideIds(rides) : StartAccept(c, u, id)
  \/ Quiet /\ \E c \in Calls, u \in Users : StartHistory(c, u)
  \/ Quiet /\ \E c \in Calls, op \in Endpoints, h \in BadHeaders : Unauthorized(c, op, h)
  \/ \E c \in Calls, g \in GeoOutcomes : GeocodeReturns(c, g, Origin)
  \/ \E c \in Calls, o \in DbOutcomes : DbInsert(c, o, now + 1)
  \/ \E c \in Calls, o \in DbOutcomes : DbUpdate(c, o, now + 1)
  \/ \E c \in Calls, o \in DbOutcomes : DbSelect(c, o)
  \/ \E c \in Calls, e \in EmitOutcomes : RequestContinue(c, e)
  \/ \E c \in Calls, e \in EmitOutcomes : AcceptContinue(c, e)
  \/ \E c \in Calls : HistoryContinue(c)

SpecAuth == Init /\ [][NextAuth]_vars

\* The socket channel next to accept calls; nothing runs once the process
\* has ended.
SocketEvents == {"join", "message", "join_ride", "chat_message", "location_update"}

NextSock ==
  \/ \E s \in Sockets : Connect(s)
  \/ \E s \in Sockets : Disconnect(s)
  \/ \E s \in Sockets, id \in DOMAIN rides : JoinRide(s, id)
  \/ \E s \in Sockets, id \in DOMAIN rides : ChatMessage(s, id)
  \/ \E s \in Sockets : LocationUpdate(s)
  \/ \E s \in Sockets, ev \in SocketEvents : MissingPayload(s, ev)
  \/ \E c \in Calls, u \in Users, id \in DOMAIN rides :
       alive /\ Quiet /\ StartAccept(c, u, id)
  \/ \E c \in Calls, o \in DbOutcomes : alive /\ DbUpdate(c, o, now)
  \/ \E c \in Calls, e \in EmitOutcomes : alive /\ AcceptContinue(c, e)

SpecSock == Init /\ [][NextSock]_vars

-----------------------------------------------------------------------------
TypeOK ==
  /\ rev \in Revisions
  /\ \A r \in DOMAIN rides :
       /\ rides[r].riderId \in Users
       /\ rides[r].driverId \in Users \cup {NULL}
       /\ rides[r].status \in {"requested", "accepted"}
  /\ Len(rides) <= MaxCalls + 1
  /\ now \in 1..(MaxCalls + 1)
  /\ Len(events) <= MaxCalls
  /\ \A c \in Calls : calls[c].status \in {0, 200, 401, 422, 500}
  /\ conns \subseteq Sockets
  /\ rooms \subseteq Sockets \X RideIds(rides)
  /\ \A m \in inbox : m.to \in Sockets
  /\ alive \in BOOLEAN

-----------------------------------------------------------------------------
(* Helpers of the properties.                                              *)

EventsOf(c) == {i \in DOMAIN events : events[i].call = c}

AcceptedEvents(id) ==
  {i \in DOMAIN events : events[i].name = "ride_accepted" /\ events[i].rideId = id}

Done(c, op) == calls[c].op = op /\ calls[c].pc = "done"

-----------------------------------------------------------------------------
\* C1: when two acceptRide calls for the same ride are both made while the ride
\* is still requested (so they run concurrently), and neither the store nor the
\* broadcast fails, exactly one of them is answered with success and the other
\* with Conflict (409), and the stored driverId is that of the successful one.
C1_ExactlyOneAcceptWins ==
  \A a, b \in Calls :
    ( /\ a # b
      /\ Done(a, "accept") /\ Done(b, "accept")
      /\ calls[a].rideId = calls[b].rideId
      /\ calls[a].pre = "requested" /\ calls[b].pre = "requested"
      /\ calls[a].write = "committed" /\ calls[b].write = "committed"
      /\ calls[a].emit = "ok" /\ calls[b].emit = "ok" )
    => \E w, l \in {a, b} :
         /\ w # l
         /\ calls[w].status = 200
         /\ calls[l].status = 409
         /\ rides[calls[w].rideId].driverId = calls[w].user

\* C2: ride_accepted is broadcast at most once for any given ride id.
C2_AcceptedBroadcastAtMostOnce ==
  \A id \in 1..(Len(rides) + 1) : Cardinality(AcceptedEvents(id)) <= 1

\* C3: a ride's driverId is set exactly once: no step changes a ride that is
\* already accepted, and an acceptRide made for a ride that is already accepted
\* is answered with Conflict (409).
C3_DriverIdSetOnce ==
  [][ /\ \A id \in DOMAIN rides :
           rides[id].status = "accepted" => rides'[id] = rides[id]
      /\ \A c \in Calls :
           ( /\ calls'[c].op = "accept" /\ calls'[c].pc = "done"
             /\ calls'[c].pre = "accepted" )
           => calls'[c].status = 409 ]_vars

\* C4: an acceptRide whose rideId matches no stored ride is answered with
\* NotFound (404), and broadcasts no ride_accepted event.
C4_AcceptMissingRideNotFound ==
  \A c \in Calls :
    ( Done(c, "accept") /\ calls[c].write = "committed" /\ calls[c].rowCount = 0 )
    => ( calls[c].status = 404 /\ EventsOf(c) = {} )

\* C5: a requestRide that fails at the geocoding step (zero matches or provider
\* error) ends there with an error answer, having written no ride and broadcast
\* no event; every ride inserted and every ride_requested event broadcast comes
\* from a call whose geocoding step found a match (or whose revision has no
\* geocoding step).
C5_GeocodeFailureNoEffect ==
  /\ [](\A c \in Calls :
          ( calls[c].op = "request" /\ calls[c].geo \in {"zero", "error"} )
          => /\ calls[c].pc = "done"
             /\ calls[c].status # 200
             /\ calls[c].write = "none"
             /\ calls[c].row = 0
             /\ EventsOf(c) = {})
  /\ [][ /\ rides' # rides /\ Len(rides') # Len(rides) =>
              \E c \in Calls :
                /\ calls[c].op = "request"
                /\ calls[c].geo = "match" \/ rev = 0
                /\ Len(rides') = Len(rides) + 1
                /\ rides'[Len(rides')].riderId = calls[c].user
                /\ SubSeq(rides', 1, Len(rides)) = rides
         /\ \A c \in Calls :
              ( calls'[c].op = "request" /\ calls[c].geo # calls'[c].geo
                /\ calls'[c].geo \in {"zero", "error"} )
              => rides' = rides /\ events' = events ]_vars

C5_Witness ==
  \E c, d \in Calls :
    /\ Done(c, "request") /\ calls[c].geo = "zero"
    /\ Done(d, "request") /\ calls[d].geo = "match" /\ calls[d].status = 200
    /\ Len(events) = 1

\* C6: when the geocoder returns zero matches, requestRide and the fare quote
\* answer 422, never the generic failure 500.
C6_ZeroMatchesIs422 ==
  \A c \in Calls :
    ( calls[c].op \in {"request", "fare"} /\ calls[c].pc = "done"
      /\ calls[c].geo = "zero" )
    => calls[c].status = 422

\* C7: in requestRide and acceptRide the broadcast comes only after the store
\* write of the same call has committed: every event in the log was emitted by
\* a call whose write had committed in an earlier step, and a call whose write
\* failed emits nothing.
C7_BroadcastAfterCommit ==
  /\ [](\A c \in Calls :
          /\ EventsOf(c) # {} => calls[c].write = "committed"
          /\ calls[c].write = "failed" => EventsOf(c) = {})
  /\ [][ events' # events =>
           \E c \in Calls :
             /\ calls[c].write = "committed"
             /\ calls[c].pc = "answered"
             /\ Len(events') = Len(events) + 1
             /\ SubSeq(events', 1, Len(events)) = events
             /\ events'[Len(events')].call = c ]_vars

C7_Witness ==
  \E c, d \in Calls :
    /\ calls[c].pc = "done" /\ calls[c].write = "failed"
    /\ calls[d].pc = "done" /\ calls[d].write = "committed" /\ EventsOf(d) # {}

\* C8: a broadcast failure is not surfaced as a request failure: a requestRide
\* or acceptRide whose write committed and whose broadcast then failed is still
\* answered with success (200).
C8_BroadcastFailureNotSurfaced ==
  \A c \in Calls :
    ( calls[c].op \in {"request", "accept"} /\ calls[c].pc = "done"
      /\ calls[c].write = "committed" /\ calls[c].emit = "threw" )
    => calls[c].status = 200

\* C9: in every reachable state of the store, for every ride, driverId is
\* absent if and only if status is requested.
C9_DriverAbsentIffRequested ==
  \A id \in DOMAIN rides :
    rides[id].driverId = NULL <=> rides[id].status = "requested"

C9_Witness ==
  \E id, jd \in DOMAIN rides :
    /\ rides[id].status = "accepted" /\ rides[id].driverId # NULL
    /\ rides[jd].status = "requested"

\* C10: a ride's status only advances: no step removes a ride, and the only
\* status change a step makes is requested to accepted, so an accepted ride
\* stays accepted.
C10_StatusOnlyAdvances ==
  [][ \A id \in DOMAIN rides :
        /\ id \in DOMAIN rides'
        /\ rides'[id].status # rides[id].status
             => rides[id].status = "requested" /\ rides'[id].status = "accepted"
        /\ rides[id].status = "accepted" => rides'[id].status = "accepted" ]_vars

C10_Witness ==
  \E c \in Calls :
    /\ calls[c].op = "accept" /\ calls[c].pre = "accepted"
    /\ calls[c].write = "committed" /\ calls[c].rowCount = 1
    /\ rides[calls[c].rideId].status = "accepted"

\* C11: history returns exactly the stored rides the caller owns in the slot
\* of the caller's role: when the SELECT of a history call is answered, the
\* rows of the answer are, without repetition, all and only the rides whose
\* driverId is the caller's id if the caller's role is driver, and whose
\* riderId is the caller's id otherwise.
C11_HistoryReturnsOwnRides ==
  [][ \A c \in Calls :
        ( calls[c].pc = "reading" /\ calls'[c].write = "committed" )
        => LET u   == calls[c].user
               got == calls'[c].result
               own == IF Role(u) = "driver"
                        THEN {id \in DOMAIN rides : rides[id].driverId = u}
                        ELSE {id \in DOMAIN rides : rides[id].riderId = u}
           IN /\ {got[i].id : i \in DOMAIN got} = own
              /\ Len(got) = Cardinality(own)
              /\ \A i \in DOMAIN got : got[i].status = rides[got[i].id].status ]_vars

C11_Witness ==
  \E c \in Calls, id \in DOMAIN rides :
    /\ Done(c, "history") /\ calls[c].status = 200
    /\ Len(calls[c].result) = 1
    /\ calls[c].result[1].id # id

\* C12: the sequence history returns is ordered newest-first by requestedAt:
\* of any two rides in it, the one requested later comes earlier.
C12_HistoryNewestFirst ==
  \A c \in Calls :
    ( Done(c, "history") /\ calls[c].status = 200 )
    => \A i, j \in DOMAIN calls[c].result :
         rides[calls[c].result[i].id].requestedAt
           > rides[calls[c].result[j].id].requestedAt => i < j

\* C13: id, riderId, pickup, dropoff and fare of a ride never change once the
\* ride is stored, and wherever a later history answer and the body of the
\* successful request that created the ride both show one of these fields,
\* they show the same value.
ImmutableFields == {"id", "riderId", "pickup", "dropoff", "fare"}

C13_SameAsReturned ==
  \A c, h \in Calls :
    ( /\ Done(c, "request") /\ calls[c].status = 200
      /\ Done(h, "history") /\ calls[h].status = 200 )
    => \A i \in DOMAIN calls[h].result :
         LET shown == calls[h].result[i]
             body  == calls[c].body
         IN shown.id = body.id
            => \A f \in ImmutableFields \cap DOMAIN body \cap DOMAIN shown :
                 shown[f] = body[f]

C13_FieldsNeverChange ==
  \A id \in DOMAIN rides :
    /\ id \in DOMAIN rides'
    /\ \A f \in ImmutableFields \ {"id"} : rides'[id][f] = rides[id][f]

C13_ImmutableFields == [](C13_SameAsReturned) /\ [][C13_FieldsNeverChange]_vars

C13_Witness ==
  \E c, h \in Calls :
    /\ Done(c, "request") /\ calls[c].status = 200
    /\ Done(h, "history") /\ calls[h].status = 200
    /\ rev = 2
    /\ calls[c].dropoff = East
    /\ \E i \in DOMAIN calls[h].result : calls[h].result[i].id = calls[c].body.id

\* C14: a chat message sent for ride R is delivered only to connections that
\* have joined the room of R, while a lifecycle event (ride_requested,
\* ride_accepted) is delivered to every connection.
C14_ChatOnlyToRoom ==
  [][ \A m \in inbox' \ inbox :
        /\ m.name \in {"chat_message", "message"} => <<m.to, m.ride>> \in rooms
        /\ m.name \in {"ride_requested", "ride_accepted"}
             => \A s \in conns : [to |-> s, name |-> m.name, ride |-> m.ride] \in inbox'
    ]_vars

\* C15: no request and no socket event, whatever its payload, ends the server
\* process: the process is alive in every reachable state.
C15_ServerSurvives == alive

\* C16: a fare, request, accept or history call whose Authorization header is
\* missing or carries a token that does not verify is answered 401 before its
\* handler runs: it makes no geocoding call, sends no statement to the
\* database, broadcasts nothing, and its arrival leaves the store, the
\* broadcasts and the deliveries as they were.
C16_Rejected ==
  \A c \in Calls :
    calls[c].auth \in BadHeaders
    => /\ calls[c].pc = "done"
       /\ calls[c].status = 401
       /\ calls[c].geo = NULL
       /\ calls[c].write = "none"
       /\ calls[c].emit = "none"
       /\ EventsOf(c) = {}

C16_RejectionWritesNothing ==
  \A c \in Calls :
    ( calls'[c] # calls[c] /\ calls'[c].auth \in BadHeaders )
    => rides' = rides /\ events' = events /\ inbox' = inbox

C16_UnauthorizedBeforeHandler ==
  [](C16_Rejected) /\ [][C16_RejectionWritesNothing]_vars

C16_Witness ==
  \E c, d \in Calls :
    /\ calls[c].auth = "none" /\ calls[c].op = "request" /\ calls[c].status = 401
    /\ calls[d].auth = "invalid" /\ calls[d].op = "accept" /\ calls[d].status = 401
    /\ Len(rides) = 1

\* C17: a fare quote is a pure preview: no step of a fare call changes the
\* stored rides, the broadcasts or the deliveries, and a fare call never has
\* a database statement or a broadcast of its own.
C17_FareCallWroteNothing ==
  \A c \in Calls :
    calls[c].op = "fare"
    => /\ calls[c].write = "none"
       /\ calls[c].row = 0
       /\ calls[c].emit = "none"
       /\ EventsOf(c) = {}

C17_FareStepIsPure ==
  \A c \in Calls :
    ( calls'[c] # calls[c] /\ calls'[c].op = "fare" )
    => rides' = rides /\ events' = events /\ inbox' = inbox

C17_FareQuoteIsPure == [](C17_FareCallWroteNothing) /\ [][C17_FareStepIsPure]_vars

C17_Witness ==
  \E c \in Calls :
    /\ Done(c, "fare") /\ calls[c].status = 200
    /\ calls[c].geo = "match"
    /\ calls[c].fare = QuoteFare(0)
    /\ Len(rides) >= 1

\* C18: with pickup (0, 0) and a dropoff that resolves to (0, 0) the distance
\* is zero and the fare is the base fare, 5.00, both in the quote of a fare
\* call and in the fare stored by a request call.
C18_ZeroDistanceFareIsBase ==
  \A c \in Calls :
    ( calls[c].pickup = Origin /\ calls[c].dropoff = Origin )
    => /\ ( Done(c, "fare") /\ calls[c].status = 200 )
            => calls[c].fare = BaseFare * 100
       /\ ( calls[c].op = "request" /\ calls[c].write = "committed" )
            => rides[calls[c].row].fare = BaseFare * 100

\* C19: every status transition of a stored ride sets its updatedAt to the
\* time of the transition or later.
C19_TransitionBumpsUpdatedAt ==
  [][ \A id \in DOMAIN rides :
        ( id \in DOMAIN rides' /\ rides'[id].status # rides[id].status )
        => rides'[id].updatedAt >= now' ]_vars

\* C20: a request call answered 200 has made one geocoding call that found a
\* match, then one INSERT that committed one row, then one ride_requested
\* broadcast, which names that row.
C20_GeocodeInsertBroadcastOnce ==
  \A c \in Calls :
    ( Done(c, "request") /\ calls[c].status = 200 )
    => /\ calls[c].geo = "match"
       /\ calls[c].write = "committed"
       /\ calls[c].rowCount = 1
       /\ \E i \in DOMAIN events :
            /\ events[i].call = c
            /\ events[i].name = "ride_requested"
            /\ events[i].rideId = calls[c].row
            /\ \A j \in DOMAIN events : events[j].call = c => j = i

\* C21: the identities stored in a ride are those of the authenticated
\* callers: a ride is created with the riderId of the request call that
\* inserts it, riderId never changes afterwards, driverId changes only to the
\* user id of an accept call made for that ride, and the user id a body names
\* is never the one stored.
C21_StoredIdsAreCallers ==
  /\ \A c \in Calls :
       ( calls[c].op = "request" /\ calls[c].write = "committed" )
       => /\ rides[calls[c].row].riderId = calls[c].user
          /\ rides[calls[c].row].riderId # BodyIdentity(calls[c].user)
  /\ \A id \in DOMAIN rides :
       rides[id].driverId # NULL
       => \E c \in Calls :
            /\ calls[c].op = "accept" /\ calls[c].write = "committed"
            /\ calls[c].rideId = id
            /\ calls[c].auth = "valid"
            /\ calls[c].user = rides[id].driverId

C21_WrittenIdsAreCallers ==
  /\ Len(rides') > Len(rides)
       => \E c \in Calls :
            /\ calls[c].op = "request" /\ calls[c].pc = "writing"
            /\ calls[c].auth = "valid"
            /\ calls'[c].row = Len(rides')
            /\ rides'[Len(rides')].riderId = calls[c].user
  /\ \A id \in DOMAIN rides :
       /\ rides'[id].riderId = rides[id].riderId
       /\ rides'[id].driverId # rides[id].driverId
            => \E c \in Calls :
                 /\ calls[c].op = "accept" /\ calls[c].pc = "writing"
                 /\ calls[c].rideId = id
                 /\ rides'[id].driverId = calls[c].user

C21_IdentitiesFromToken ==
  [](C21_StoredIdsAreCallers) /\ [][C21_WrittenIdsAreCallers]_vars

C21_Witness ==
  \E c, a \in Calls :
    /\ calls[c].op = "request" /\ calls[c].write = "committed"
    /\ calls[a].op = "accept" /\ calls[a].write = "committed"
    /\ calls[a].rideId \in DOMAIN rides
    /\ rides[calls[a].rideId].driverId = calls[a].user
    /\ ReqBodyId(calls[a]) # calls[a].user

\* C22: once an accept call by a driver d for a stored ride r has been
\* answered 200, the history query of d (role driver) selects r, and the
\* history query of the rider who requested r selects it too, with status
\* accepted; a ride for which no accept has committed is selected by no
\* driver's history query.
C22_AcceptedRideInHistories ==
  /\ \A a \in Calls :
       ( /\ Done(a, "accept") /\ calls[a].status = 200
         /\ calls[a].rideId \in DOMAIN rides
         /\ Role(calls[a].user) = "driver" )
       => LET r == calls[a].rideId
              d == calls[a].user
              rider == rides[r].riderId
          IN /\ r \in Selected(rides, d, Role(d))
             /\ rides[r].status = "accepted"
             /\ Role(rider) = "rider" => r \in Selected(rides, rider, Role(rider))
  /\ \A r \in DOMAIN rides :
       ( \A a \in Calls : ~ ( /\ calls[a].op = "accept"
                              /\ calls[a].rideId = r
                              /\ calls[a].write = "committed" ) )
       => \A u \in Users : Role(u) = "driver" => r \notin Selected(rides, u, Role(u))

\* C23: the ride a ride_requested broadcast carries is the record the request
\* call returns to its caller: the same id, that of the inserted row, and the
\* same value in every field, each the value the store holds for the row as
\* inserted.
C23_BroadcastCarriesReturnedRide ==
  \A i \in DOMAIN events :
    events[i].name = "ride_requested"
    => LET c    == events[i].call
           ride == events[i].payload
       IN /\ calls[c].status = 200
          /\ ride = calls[c].body
          /\ ride.id = calls[c].row
          /\ ride.status = "requested"
          /\ ride.driverId = NULL
          /\ \A f \in ImmutableFields \ {"id"} : ride[f] = rides[ride.id][f]

C23_Witness ==
  \E i \in DOMAIN events :
    /\ events[i].name = "ride_requested"
    /\ rev = 2
    /\ calls[events[i].call].dropoff = East
    /\ calls[events[i].call].status = 200
    /\ rides[events[i].rideId].status = "accepted"

====
